---- MODULE Spec2Model ----
(***************************************************************************)
(* Users table with infinite scroll, debounced search and memoized         *)
(* filter/sort (App, useInfiniteScroll, fetchUsers, DataTable).            *)
(*                                                                         *)
(* React state is the value seen by the last render.  A setter called      *)
(* from a promise callback, a timer or an observer callback only queues    *)
(* its update (pending); the render task (RenderTask) applies the whole    *)
(* queue in one render, at once or after other callbacks and events.       *)
(* A DOM input event (onChange) renders its own update within the event    *)
(* and flushes the effects of that render before it returns; whether that  *)
(* render takes the queued updates with it depends on the React the        *)
(* bundle is built with, which the repository does not pin (reactMajor).   *)
(* Passive effects (useEffect) of any other render run later, in           *)
(* FlushEffects, and always before the next render.                        *)
(***************************************************************************)
EXTENDS Integers, Sequences, FiniteSets, TLC

\* ---------------------------------------------------------------- bounds
\* size of the mock dataset and of a page (scaled down from 10000 / 50)
TOTAL_RECORDS == 5
PAGE_SIZE == 2
\* cap on fetches issued and not yet resolved
MaxInFlight == 2
\* cap on state updates queued and not yet rendered
MaxPending == 2
\* granularity of the clock
TickStep == 150
\* longest list handed to the sort on its own
MaxSortLen == 3
\* rows of the documented visible window, overscan included (scaled down
\* from 30 as PAGE_SIZE is from 50: less than one page)
VisibleWindow == 1

\* The React majors the bundle may be built with (createRoot): 18 renders
\* the update of an input event alone, 19 renders the queued updates in the
\* same render ("Batch sync, default and continuous lanes").
ReactMajors == { 18, 19 }

\* debounce quiet window, setTimeout(..., 300)
DEBOUNCE_MS == 300
\* Array.from({ length: 18 })
SKELETON_ROWS == 18

\* ---------------------------------------------------------------- strings
\* A JavaScript string is a sequence of one-character strings.
UpperChars == <<"A","B","C","D","E","F","G","H","I","J","K","L","M",
                "N","O","P","Q","R","S","T","U","V","W","X","Y","Z">>
LowerChars == <<"a","b","c","d","e","f","g","h","i","j","k","l","m",
                "n","o","p","q","r","s","t","u","v","w","x","y","z">>
Digits == <<"0","1","2","3","4","5","6","7","8","9">>
\* every character of a name, an email or a search term
Chars ==
  { UpperChars[i] : i \in 1..26 } \cup { LowerChars[i] : i \in 1..26 }
    \cup { Digits[i] : i \in 1..10 } \cup { " ", ".", "@" }

\* String.prototype.toLowerCase, character by character
ToLowerTable ==
  [c \in Chars |->
  CASE c = "A" -> "a"
    [] c = "B" -> "b"
    [] c = "C" -> "c"
    [] c = "D" -> "d"
    [] c = "E" -> "e"
    [] c = "F" -> "f"
    [] c = "G" -> "g"
    [] c = "H" -> "h"
    [] c = "I" -> "i"
    [] c = "J" -> "j"
    [] c = "K" -> "k"
    [] c = "L" -> "l"
    [] c = "M" -> "m"
    [] c = "N" -> "n"
    [] c = "O" -> "o"
    [] c = "P" -> "p"
    [] c = "Q" -> "q"
    [] c = "R" -> "r"
    [] c = "S" -> "s"
    [] c = "T" -> "t"
    [] c = "U" -> "u"
    [] c = "V" -> "v"
    [] c = "W" -> "w"
    [] c = "X" -> "x"
    [] c = "Y" -> "y"
    [] c = "Z" -> "z"
    [] OTHER -> c ]

\* the lower-case form of one character
ToLowerChar(c) == IF c \in Chars THEN ToLowerTable[c] ELSE c

\* String.prototype.toLowerCase
toLowerCase(s) == [i \in 1..Len(s) |-> ToLowerChar(s[i])]

\* String.prototype.includes
includes(s, t) ==
  \E k \in 0..(Len(s) - Len(t)) : \A j \in 1..Len(t) : s[k + j] = t[j]

\* template-literal conversion of a positive integer: `${n}`
RECURSIVE IntToStr(_)
IntToStr(n) ==
  IF n < 10 THEN <<Digits[n + 1]>>
  ELSE IntToStr(n \div 10) \o <<Digits[(n % 10) + 1]>>

\* ---------------------------------------------------------------- fakeApi
\* allData[index], index = id - 1
UserOf(id) ==
  [ id    |-> id,
    name  |-> <<"U","s","e","r"," ">> \o IntToStr(id),
    email |-> <<"u","s","e","r">> \o IntToStr(id)
              \o <<"@","e","x","a","m","p","l","e",".","c","o","m">>,
    role  |-> IF (id - 1) % 2 = 0 THEN "Developer" ELSE "Designer" ]

allData == [i \in 1..TOTAL_RECORDS |-> UserOf(i)]

Min(a, b) == IF a < b THEN a ELSE b

\* Array.prototype.slice(start, end) with 0 <= start <= end (0-based, end exclusive)
slice(arr, start, end) ==
  LET s == Min(start, Len(arr))
      e == Min(end, Len(arr))
  IN  [i \in 1..(e - s) |-> arr[s + i]]

\* An array of users holds references to the objects of allData (slice,
\* spread and filter copy references, never objects): a reference is the
\* object's position in allData.
Refs(arr) == [i \in 1..Len(arr) |-> i]

\* what the promise of fetchUsers(page) resolves with
PageEnd(p) == (p - 1) * PAGE_SIZE + PAGE_SIZE
\* mutant: pages are counted from 0
fetchUsers_ZeroBased(p) ==
  [ data    |-> slice(Refs(allData), p * PAGE_SIZE, p * PAGE_SIZE + PAGE_SIZE),
    hasMore |-> p * PAGE_SIZE + PAGE_SIZE < TOTAL_RECORDS ]

fetchUsers(p) ==
  [ data    |-> slice(Refs(allData), (p - 1) * PAGE_SIZE, PageEnd(p)),
    hasMore |-> PageEnd(p) < TOTAL_RECORDS ]

\* ---------------------------------------------------------------- derivation
\* mutant: the search term is not lower-cased
FilterUsers_CaseSensitive(us, term) ==
  LET keep(user) == \/ includes(toLowerCase(allData[user].name), term)
                    \/ includes(toLowerCase(allData[user].email), term)
  IN  SelectSeq(us, keep)

\* body of the filteredUsers memo: users.filter(name or email includes term)
FilterUsers(us, term) ==
  LET searchLower == toLowerCase(term)
      keep(user) == \/ includes(toLowerCase(allData[user].name), searchLower)
                    \/ includes(toLowerCase(allData[user].email), searchLower)
  IN  SelectSeq(us, keep)

\* collation rank of a character, case folded: space, punctuation, digits, letters
Alphabet == <<" ", ".", "@">> \o Digits \o LowerChars
RankTable ==
  [c \in Chars |->
  LET l == ToLowerTable[c]
  IN  CASE l = " " -> 1
        [] l = "." -> 2
        [] l = "@" -> 3
        [] l = "0" -> 4
        [] l = "1" -> 5
        [] l = "2" -> 6
        [] l = "3" -> 7
        [] l = "4" -> 8
        [] l = "5" -> 9
        [] l = "6" -> 10
        [] l = "7" -> 11
        [] l = "8" -> 12
        [] l = "9" -> 13
        [] l = "a" -> 14
        [] l = "b" -> 15
        [] l = "c" -> 16
        [] l = "d" -> 17
        [] l = "e" -> 18
        [] l = "f" -> 19
        [] l = "g" -> 20
        [] l = "h" -> 21
        [] l = "i" -> 22
        [] l = "j" -> 23
        [] l = "k" -> 24
        [] l = "l" -> 25
        [] l = "m" -> 26
        [] l = "n" -> 27
        [] l = "o" -> 28
        [] l = "p" -> 29
        [] l = "q" -> 30
        [] l = "r" -> 31
        [] l = "s" -> 32
        [] l = "t" -> 33
        [] l = "u" -> 34
        [] l = "v" -> 35
        [] l = "w" -> 36
        [] l = "x" -> 37
        [] l = "y" -> 38
        [] l = "z" -> 39
        [] OTHER -> 0 ]

\* the collation rank of one character
CharRank(c) == IF c \in Chars THEN RankTable[c] ELSE 0

IsUpper(c) == \E i \in 1..26 : UpperChars[i] = c

\* case weight of a character: lower case sorts before upper case
CaseWeight(c) == IF IsUpper(c) THEN 1 ELSE 0

\* lexicographic comparison of a and b from position i on, by letter rank
\* (primary) or by case weight: -1, 0 or 1
RECURSIVE LexCompare(_, _, _, _)
LexCompare(a, b, i, primary) ==
  IF i > Len(a) /\ i > Len(b) THEN 0
  ELSE IF i > Len(a) THEN -1
  ELSE IF i > Len(b) THEN 1
  ELSE LET x == IF primary THEN CharRank(a[i]) ELSE CaseWeight(a[i])
           y == IF primary THEN CharRank(b[i]) ELSE CaseWeight(b[i])
       IN  IF x < y THEN -1
           ELSE IF x > y THEN 1
           ELSE LexCompare(a, b, i + 1, primary)

\* String.prototype.localeCompare: letters first, case as tie-break
localeCompare(a, b) ==
  LET primary == LexCompare(a, b, 1, TRUE)
  IN  IF primary # 0 THEN primary ELSE LexCompare(a, b, 1, FALSE)

\* mutant: an unknown directive falls back to id descending
Compare_DefaultIdDesc(a, b, by) ==
  IF by = "name-asc" THEN localeCompare(a.name, b.name)
  ELSE IF by = "name-desc" THEN localeCompare(b.name, a.name)
  ELSE IF by = "id-asc" THEN a.id - b.id
  ELSE b.id - a.id

\* the comparator handed to sort
Compare(a, b, by) ==
  IF by = "name-asc" THEN localeCompare(a.name, b.name)
  ELSE IF by = "name-desc" THEN localeCompare(b.name, a.name)
  ELSE IF by = "id-asc" THEN a.id - b.id
  ELSE IF by = "id-desc" THEN b.id - a.id
  ELSE 0

\* Array.prototype.sort is stable: an element goes after every element that
\* does not compare greater than it
RECURSIVE InsertSorted(_, _, _)
InsertSorted(sorted, x, by) ==
  IF sorted = <<>> THEN <<x>>
  ELSE IF Compare(allData[sorted[Len(sorted)]], allData[x], by) <= 0 THEN Append(sorted, x)
  ELSE Append(InsertSorted(SubSeq(sorted, 1, Len(sorted) - 1), x, by),
              sorted[Len(sorted)])

\* F applied to the value of e (e is evaluated once)
With(e, F(_)) == CHOOSE r \in { F(v) : v \in {e} } : TRUE

RECURSIVE SortFrom(_, _, _)
SortFrom(done, rest, by) ==
  IF rest = <<>> THEN done
  ELSE With(InsertSorted(done, Head(rest), by),
            LAMBDA d : SortFrom(d, Tail(rest), by))

\* mutant: an unstable sort, records that compare equal come out reversed
SortUsers_Unstable(fs, by) ==
  With([i \in 1..Len(fs) |-> fs[Len(fs) + 1 - i]], LAMBDA v : SortFrom(<<>>, v, by))

\* body of the sortedUsers memo: [...filteredUsers].sort(comparator)
SortUsers(fs, by) == With(fs, LAMBDA v : SortFrom(<<>>, v, by))

\* the pure derivation of the display list
derive(records, s, by) == SortUsers(FilterUsers(records, s), by)

\* mutant: the placeholders are rendered whether or not a fetch is outstanding
DataTable_AlwaysSkeleton(data, isLoading) ==
  [i \in 1..Len(data) |-> [kind |-> "row", user |-> data[i]]]
    \o [i \in 1..SKELETON_ROWS |-> [kind |-> "skeleton", user |-> 0]]

\* the rows of the table body: one row per record of data, then the
\* placeholder rows while loading
DataTable(data, isLoading) ==
  [i \in 1..Len(data) |-> [kind |-> "row", user |-> data[i]]]
    \o (IF isLoading THEN [i \in 1..SKELETON_ROWS |-> [kind |-> "skeleton", user |-> 0]]
        ELSE <<>>)

SortOptions == {"none", "name-asc", "name-desc", "id-asc", "id-desc"}

\* search strings the user may type
SearchTerms == { <<>>, <<"E", "R">>, <<"R", "1">> }

\* ---------------------------------------------------------------- state
VARIABLES
  users, page, loading, hasMore,        \* useState of App (pagination)
  searchTerm, debouncedSearchTerm,      \* useState of App (search)
  sortBy,                               \* useState of App (sort)
  filteredUsers, sortedUsers,           \* values cached by the two useMemo
  filterRuns, sortRuns,                 \* parity of the number of runs of each memo body
  obs,                                  \* the IntersectionObserver installed by the hook's effect
  observers,                            \* the observers that watch the sentinel
  mounted,                              \* the component has not been unmounted
  inView,                               \* sentinel inside the 200px look-ahead zone
  inFlight,                             \* promises of fetchUsers not yet resolved, oldest first
  pending,                              \* state updates queued by callbacks, not yet rendered
  altLanes,                             \* the last render changed state (lanes left on the alternate fiber)
  reactMajor,                           \* the React major of the build, fixed for a run
  timers, timerHandle,                  \* pending setTimeout of the debounce; handle held by the cleanup
  sinceRaw                              \* time since the last raw search update (saturates)

vars == << users, page, loading, hasMore, searchTerm, debouncedSearchTerm, sortBy,
           filteredUsers, sortedUsers, filterRuns, sortRuns, obs, observers, mounted,
           inView, inFlight, pending, altLanes, reactMajor, timers, timerHandle, sinceRaw >>

pagination == << users, page, loading, hasMore >>
memo == << filteredUsers, sortedUsers, filterRuns, sortRuns >>
debounce == << timers, timerHandle, sinceRaw >>
hook == << obs, observers >>
react == << altLanes, reactMajor >>

\* ---------------------------------------------------------------- hooks
\* The observer created by the effect of useInfiniteScroll: its callback
\* closes over callback (hence page), hasMore and loading of that render.
\* last is the intersection state it reported last ("none": nothing yet).
\* mutant: the callback does not look at loading
NewObserver_IgnoresLoading(p, h, l) ==
  [page |-> p, hasMore |-> h, loading |-> FALSE, last |-> "none"]

NewObserver(p, h, l) == [page |-> p, hasMore |-> h, loading |-> l, last |-> "none"]

\* the effect's dependency list [callback, hasMore, loading] differs from
\* the one of the render whose effect ran last
ObserverStale == << obs.page, obs.hasMore, obs.loading >> # << page, hasMore, loading >>

\* mutant: the observer of a re-run makes no initial report, it starts from
\* what the observer before it reported last
FlushObserver_KeepsReport ==
  IF ObserverStale
  THEN [NewObserver(page, hasMore, loading) EXCEPT !.last = obs.last]
  ELSE obs

\* cleanup (unobserve) and re-run of the effect for the last render
FlushObserver == IF ObserverStale THEN NewObserver(page, hasMore, loading) ELSE obs

\* the effect of a render of (p, h, l), run while observer o is installed
EffectObserver(o, p, h, l) ==
  IF << o.page, o.hasMore, o.loading >> # << p, h, l >> THEN NewObserver(p, h, l) ELSE o

\* mutant: the cleanup of the effect releases nothing
unobserve_Noop(os, o) == os

\* observer.unobserve(currentTarget) in the cleanup of the effect
unobserve(os, o) == os \ {o}

\* The observers watching the sentinel once the effect's observer old has
\* become new: the same observer with another last report, or (the
\* dependencies differ) the observer of a re-run of the effect, whose
\* cleanup ran first.
Observing(os, old, new) ==
  IF << old.page, old.hasMore, old.loading >> = << new.page, new.hasMore, new.loading >>
  THEN (os \ {old}) \cup {new}
  ELSE unobserve(os, old) \cup {new}

\* mutant: no memoization, both bodies run on every render
Render_NoMemo(u, d, by, newUsers) ==
  /\ filteredUsers' = FilterUsers(u, d)
  /\ sortedUsers' = SortUsers(FilterUsers(u, d), by)
  /\ filterRuns' = 1 - filterRuns
  /\ sortRuns' = 1 - sortRuns

\* mutant: users is missing from the dependency list of filteredUsers
Render_StaleUsers(u, d, by, newUsers) ==
  LET filterDeps == d # debouncedSearchTerm
      f == IF filterDeps THEN FilterUsers(u, d) ELSE filteredUsers
      sortDeps == filterDeps \/ by # sortBy
  IN  /\ filteredUsers' = f
      /\ sortedUsers' = IF sortDeps THEN SortUsers(f, by) ELSE sortedUsers
      /\ filterRuns' = IF filterDeps THEN 1 - filterRuns ELSE filterRuns
      /\ sortRuns' = IF sortDeps THEN 1 - sortRuns ELSE sortRuns

\* the component body: both useMemo, given the state of the new render;
\* newUsers says that users is a new array
Render(u, d, by, newUsers) ==
  LET filterDeps == newUsers \/ d # debouncedSearchTerm
      sortDeps == filterDeps \/ by # sortBy
  IN  \E f \in { IF filterDeps THEN FilterUsers(u, d) ELSE filteredUsers } :
        /\ filteredUsers' = f
        /\ sortedUsers' = IF sortDeps THEN SortUsers(f, by) ELSE sortedUsers
        /\ filterRuns' = IF filterDeps THEN 1 - filterRuns ELSE filterRuns
        /\ sortRuns' = IF sortDeps THEN 1 - sortRuns ELSE sortRuns

\* setTimeout returns a handle not in use
FreshHandle == CHOOSE n \in 0..Cardinality(timers) : \A t \in timers : t.id # n

\* clearTimeout(timer)
clearTimeout(ts, h) == { t \in ts : t.id # h }

\* mutant: the effect returns no cleanup, the prior timer stays armed
DebounceEffect_NoCleanup(ts, h, v) ==
  ts \cup { [id |-> FreshHandle, value |-> v, remaining |-> DEBOUNCE_MS] }

\* cleanup and re-run of the debounce effect for search term v
DebounceEffect(ts, h, v) ==
  clearTimeout(ts, h) \cup { [id |-> FreshHandle, value |-> v, remaining |-> DEBOUNCE_MS] }

\* ---------------------------------------------------------------- updates
\* A setter called outside a React event handler (promise callback, timer,
\* observer callback) queues its update; React renders the queue in a later
\* task (RenderTask), at once or after other callbacks and events.  An
\* update is one of: setLoading(true) of loadUsers, the four setters of a
\* then-callback, setDebouncedSearchTerm(value).
SetLoadingTrue == [kind |-> "load", page |-> 0, init |-> FALSE, value |-> <<>>]
PageUpdate(req) == [kind |-> "page", page |-> req.page, init |-> req.init, value |-> <<>>]
SettleUpdate(v) == [kind |-> "settle", page |-> 0, init |-> FALSE, value |-> v]

\* mutant: the then-callback of loadUsers replaces the records by the page
Reduce_Replaces(st, u) ==
  CASE u.kind = "load" -> [st EXCEPT !.loading = TRUE]
    [] u.kind = "page" ->
         [st EXCEPT !.users = fetchUsers(u.page).data,
                    !.hasMore = fetchUsers(u.page).hasMore,
                    !.page = IF u.init THEN 2 ELSE @ + 1,
                    !.loading = FALSE,
                    !.newUsers = TRUE]
    [] OTHER -> [st EXCEPT !.settled = u.value]

\* one queued update applied to the state built so far; the updates of
\* loadUsers are functional (prev => ...), those of the mount effect are not
Reduce(st, u) ==
  CASE u.kind = "load" -> [st EXCEPT !.loading = TRUE]
    [] u.kind = "page" ->
         [st EXCEPT !.users = IF u.init THEN fetchUsers(u.page).data
                              ELSE @ \o fetchUsers(u.page).data,
                    !.hasMore = fetchUsers(u.page).hasMore,
                    !.page = IF u.init THEN 2 ELSE @ + 1,
                    !.loading = FALSE,
                    !.newUsers = TRUE]
    [] OTHER -> [st EXCEPT !.settled = u.value]

\* the queue applied in the order the setters were called
RECURSIVE Apply(_, _)
Apply(st, q) == IF q = <<>> THEN st ELSE Apply(Reduce(st, Head(q)), Tail(q))

\* the state a render of the queue q commits
RenderedWith(q) ==
  Apply([users |-> users, page |-> page, hasMore |-> hasMore, loading |-> loading,
         settled |-> debouncedSearchTerm, newUsers |-> FALSE], q)

\* the state a render of the whole queue commits
Rendered == RenderedWith(pending)

\* a hook of the render committing st holds another value than before
\* (setUsers always hands over a new array)
Changes(st) ==
  \/ st.newUsers
  \/ << st.page, st.hasMore, st.loading, st.settled >>
       # << page, hasMore, loading, debouncedSearchTerm >>

\* dispatchSetState drops an update that leaves the hook's value as it is
\* only if neither the fiber nor its alternate holds lanes: nothing is
\* queued, and the last render changed nothing (a render that changed
\* state leaves its lanes on the alternate)
EagerBailout(same) == pending = <<>> /\ ~altLanes /\ same

\* the updates queued by callbacks that the render of an input event takes
\* with it
SyncBatch == IF reactMajor >= 19 THEN pending ELSE <<>>

\* ---------------------------------------------------------------- Init
\* The state after the first render and its effects: the debounce timer is
\* armed, fetchUsers(1) is outstanding and the observer watches the sentinel.
Init ==
  /\ users = <<>> /\ page = 1 /\ loading = TRUE /\ hasMore = TRUE
  /\ searchTerm = <<>> /\ debouncedSearchTerm = <<>> /\ sortBy = "none"
  /\ filteredUsers = <<>> /\ sortedUsers = <<>>
  /\ filterRuns = 1 /\ sortRuns = 1
  /\ obs = NewObserver(1, TRUE, TRUE)
  /\ observers = { obs }
  /\ mounted = TRUE
  /\ inView \in BOOLEAN
  /\ inFlight = << [page |-> 1, init |-> TRUE] >>
  /\ pending = <<>>
  /\ altLanes = FALSE
  /\ reactMajor \in ReactMajors
  /\ timers = { [id |-> 0, value |-> <<>>, remaining |-> DEBOUNCE_MS] }
  /\ timerHandle = 0
  /\ sinceRaw = 0

\* ---------------------------------------------------------------- actions
\* the user scrolls, or the layout moves the sentinel
Scroll ==
  /\ mounted
  /\ inView' = ~inView
  /\ UNCHANGED << react, pagination, searchTerm, debouncedSearchTerm, sortBy, memo, hook, mounted,
                  inFlight, pending, debounce >>

\* An observer reports a change of the sentinel's intersection (the first
\* report after observe() is unconditional) and its callback runs:
\* if (entry.isIntersecting && hasMore && !loading) callback(), where
\* callback is loadUsers: setLoading(true); fetchUsers(page).then(...).
\* setLoading(true) is queued, unless React drops it: loading is true
\* already and no fiber holds lanes (EagerBailout), or the component is
\* unmounted.
Notify ==
  \E o \in observers :
    LET cur == IF inView THEN "in" ELSE "out"
        fire == inView /\ o.hasMore /\ ~o.loading
        reported == [o EXCEPT !.last = cur]
        skip == ~mounted \/ EagerBailout(loading)
    IN  /\ o.last # cur
        /\ obs' = IF o = obs THEN reported ELSE obs
        /\ observers' = (observers \ {o}) \cup {reported}
        /\ IF fire
           THEN /\ Len(inFlight) < MaxInFlight
                /\ skip \/ Len(pending) < MaxPending
                /\ inFlight' = Append(inFlight, [page |-> o.page, init |-> FALSE])
                /\ pending' = IF skip THEN pending ELSE Append(pending, SetLoadingTrue)
           ELSE UNCHANGED << inFlight, pending >>
        /\ UNCHANGED << react, pagination, searchTerm, debouncedSearchTerm, sortBy, memo,
                        mounted, inView, debounce >>

\* the passive effects of the last render run: the observer is replaced
FlushEffects ==
  /\ mounted
  /\ ObserverStale
  /\ obs' = FlushObserver
  /\ observers' = Observing(observers, obs, obs')
  /\ UNCHANGED << react, pagination, searchTerm, debouncedSearchTerm, sortBy, memo, mounted, inView,
                  inFlight, pending, debounce >>

\* The oldest outstanding fetch resolves (every fetch has the same delay) and
\* its then-callback runs: setUsers, setHasMore, setPage, setLoading(false)
\* are queued.  The setters of an unmounted component change nothing: React
\* drops the updates.
FetchResolved ==
  /\ inFlight # <<>>
  /\ inFlight' = Tail(inFlight)
  /\ IF mounted
     THEN /\ Len(pending) < MaxPending
          /\ pending' = Append(pending, PageUpdate(Head(inFlight)))
     ELSE UNCHANGED pending
  /\ UNCHANGED << react, pagination, searchTerm, debouncedSearchTerm, sortBy, memo, hook, mounted,
                  inView, debounce >>

\* React's render task: the effects still pending from the render before
\* run first, then the component renders with every queued update applied.
\* A queue that leaves every hook at its value makes a render that commits
\* nothing new and clears the lanes of both fibers.
RenderTask ==
  /\ pending # <<>>
  /\ pending' = <<>>
  /\ \E st \in { Rendered } :
       /\ users' = st.users
       /\ page' = st.page
       /\ hasMore' = st.hasMore
       /\ loading' = st.loading
       /\ debouncedSearchTerm' = st.settled
       /\ Render(st.users, st.settled, sortBy, st.newUsers)
       /\ altLanes' = Changes(st)
  /\ obs' = FlushObserver
  /\ observers' = Observing(observers, obs, obs')
  /\ UNCHANGED << searchTerm, sortBy, mounted, inView, inFlight, reactMajor, debounce >>

\* onChange of the search input: setSearchTerm(v) is rendered within the
\* event (the effects still pending run first), together with the queued
\* updates that React takes into a synchronous render (SyncBatch), and the
\* effects of that render (debounce, observer) run before the event returns
OnSearchChange(v) ==
  /\ mounted
  /\ v # searchTerm
  /\ searchTerm' = v
  /\ timers' = DebounceEffect(timers, timerHandle, v)
  /\ timerHandle' = FreshHandle
  /\ sinceRaw' = 0
  /\ \E st \in { RenderedWith(SyncBatch) } :
       /\ users' = st.users
       /\ page' = st.page
       /\ hasMore' = st.hasMore
       /\ loading' = st.loading
       /\ debouncedSearchTerm' = st.settled
       /\ Render(st.users, st.settled, sortBy, st.newUsers)
  /\ pending' = IF SyncBatch = pending THEN <<>> ELSE pending
  /\ altLanes' = TRUE
  /\ obs' = EffectObserver(FlushObserver, page', hasMore', loading')
  /\ observers' = Observing(Observing(observers, obs, FlushObserver), FlushObserver, obs')
  /\ UNCHANGED << sortBy, mounted, inView, inFlight, reactMajor >>

\* mutant: the comparator sorts users itself, not a copy of the filter result
OnSortChange_InPlace(by) ==
  /\ mounted
  /\ by # sortBy
  /\ sortBy' = by
  /\ \E st \in { RenderedWith(SyncBatch) } :
       /\ users' = SortUsers(st.users, by)
       /\ page' = st.page
       /\ hasMore' = st.hasMore
       /\ loading' = st.loading
       /\ debouncedSearchTerm' = st.settled
       /\ Render(users', st.settled, by, TRUE)
  /\ pending' = IF SyncBatch = pending THEN <<>> ELSE pending
  /\ altLanes' = TRUE
  /\ obs' = EffectObserver(FlushObserver, page', hasMore', loading')
  /\ observers' = Observing(Observing(observers, obs, FlushObserver), FlushObserver, obs')
  /\ UNCHANGED << searchTerm, mounted, inView, inFlight, reactMajor, debounce >>

\* onChange of the sort select: setSortBy(by) is rendered within the event,
\* together with the queued updates that React takes into a synchronous
\* render (SyncBatch); the effects of that render run before the event returns
OnSortChange(by) ==
  /\ mounted
  /\ by # sortBy
  /\ sortBy' = by
  /\ \E st \in { RenderedWith(SyncBatch) } :
       /\ users' = st.users
       /\ page' = st.page
       /\ hasMore' = st.hasMore
       /\ loading' = st.loading
       /\ debouncedSearchTerm' = st.settled
       /\ Render(st.users, st.settled, by, st.newUsers)
  /\ pending' = IF SyncBatch = pending THEN <<>> ELSE pending
  /\ altLanes' = TRUE
  /\ obs' = EffectObserver(FlushObserver, page', hasMore', loading')
  /\ observers' = Observing(Observing(observers, obs, FlushObserver), FlushObserver, obs')
  /\ UNCHANGED << searchTerm, mounted, inView, inFlight, reactMajor, debounce >>

\* a debounce timer expires: setDebouncedSearchTerm(searchTerm of its render)
\* is queued, unless React drops it: the value is the settled term already
\* and no fiber holds lanes (EagerBailout), or the component is unmounted
TimerFire ==
  \E t \in timers :
    LET skip == ~mounted \/ EagerBailout(t.value = debouncedSearchTerm)
    IN  /\ t.remaining = 0
        /\ skip \/ Len(pending) < MaxPending
        /\ timers' = timers \ {t}
        /\ pending' = IF skip THEN pending ELSE Append(pending, SettleUpdate(t.value))
        /\ UNCHANGED << react, pagination, searchTerm, debouncedSearchTerm, sortBy, memo, hook,
                        mounted, inView, inFlight, timerHandle, sinceRaw >>

\* time passes
Tick ==
  /\ \/ sinceRaw < DEBOUNCE_MS
     \/ \E t \in timers : t.remaining > 0
  /\ sinceRaw' = Min(sinceRaw + TickStep, DEBOUNCE_MS)
  /\ timers' = { [t EXCEPT !.remaining = IF @ > TickStep THEN @ - TickStep ELSE 0] : t \in timers }
  /\ UNCHANGED << react, pagination, searchTerm, debouncedSearchTerm, sortBy, memo, hook, mounted,
                  inView, inFlight, pending, timerHandle >>

\* mutant: the debounce timer survives the unmount
Unmount_KeepsTimer ==
  /\ mounted
  /\ mounted' = FALSE
  /\ obs' = FlushObserver
  /\ observers' = unobserve(Observing(observers, obs, obs'), obs')
  /\ pending' = <<>>
  /\ UNCHANGED << react, pagination, searchTerm, debouncedSearchTerm, sortBy, memo, inView,
                  inFlight, debounce >>

\* The component is unmounted.  The effects still pending from the last
\* render run first (the hook's effect is cleaned up and re-run: the old
\* observer is released, a new one observes the sentinel); then the
\* cleanups of the effects run, that is clearTimeout(timer) and
\* observer.unobserve(currentTarget) on the observer of the last run, and
\* the updates still queued are dropped.  Nothing cancels an outstanding
\* fetch.
Unmount ==
  /\ mounted
  /\ mounted' = FALSE
  /\ timers' = clearTimeout(timers, timerHandle)
  /\ obs' = FlushObserver
  /\ observers' = unobserve(Observing(observers, obs, obs'), obs')
  /\ pending' = <<>>
  /\ UNCHANGED << react, pagination, searchTerm, debouncedSearchTerm, sortBy, memo, inView,
                  inFlight, timerHandle, sinceRaw >>

Next ==
  \/ Scroll
  \/ Notify
  \/ FlushEffects
  \/ FetchResolved
  \/ RenderTask
  \/ \E v \in SearchTerms : OnSearchChange(v)
  \/ \E by \in SortOptions : OnSortChange(by)
  \/ TimerFire
  \/ Tick

Spec == Init /\ [][Next]_vars

\* The search input alone (no scrolling, no sort selection), with the
\* scheduling the event loop guarantees: time passes, a timer that is due
\* fires and the queued updates are rendered.
NextSearch ==
  \/ FetchResolved
  \/ RenderTask
  \/ \E v \in SearchTerms : OnSearchChange(v)
  \/ TimerFire
  \/ Tick

SearchSpec ==
  /\ Init /\ [][NextSearch]_vars
  /\ WF_vars(Tick) /\ WF_vars(TimerFire) /\ WF_vars(RenderTask)

\* The scroll side alone: no typing, no sort selection, no timer.
NextScroll ==
  \/ Scroll
  \/ Notify
  \/ FlushEffects
  \/ FetchResolved
  \/ RenderTask

ScrollSpec == Init /\ [][NextScroll]_vars

\* The life of the component up to and after its unmount (no scrolling
\* after the mount, no sort selection).
NextTeardown ==
  \/ Notify
  \/ FlushEffects
  \/ FetchResolved
  \/ RenderTask
  \/ \E v \in SearchTerms : OnSearchChange(v)
  \/ TimerFire
  \/ Tick
  \/ Unmount

TeardownSpec == Init /\ [][NextTeardown]_vars

\* The scroll side under the scheduling the runtime guarantees: the effects
\* of a render run, the observer delivers a pending report, the timer of an
\* outstanding fetch expires, and the queued updates are rendered.  A
\* callback that finds the queue of updates full waits for the render task;
\* the cap is the model's, so a callback that is ready again and again does
\* run (strong fairness).
AutoLoadSpec ==
  /\ ScrollSpec
  /\ WF_vars(FlushEffects) /\ SF_vars(Notify) /\ SF_vars(FetchResolved)
  /\ WF_vars(RenderTask)

\* The sentinel stays in the look-ahead zone (say the rows displayed never
\* fill the viewport) while the user types; the runtime runs the effects,
\* delivers the observer's reports, resolves the fetches and fires the timers.
InitInView == Init /\ inView

NextInView ==
  \/ Notify
  \/ FlushEffects
  \/ FetchResolved
  \/ RenderTask
  \/ \E v \in SearchTerms : OnSearchChange(v)
  \/ TimerFire
  \/ Tick

InViewSpec ==
  /\ InitInView /\ [][NextInView]_vars
  /\ WF_vars(FlushEffects) /\ SF_vars(Notify) /\ SF_vars(FetchResolved)
  /\ WF_vars(RenderTask) /\ WF_vars(Tick) /\ SF_vars(TimerFire)

\* The derivation of the display list while pages load: the sentinel stays
\* in the look-ahead zone, the user types and selects sort directives.
NextDerive ==
  \/ NextInView
  \/ \E by \in SortOptions : OnSortChange(by)

DeriveSpec == InitInView /\ [][NextDerive]_vars

\* The sort on its own: any list of loaded records, filtered by any settled
\* term, is displayed; the user then selects sort directives.
SortLists == UNION { [1..n -> 1..TOTAL_RECORDS] : n \in 0..MaxSortLen }

InitSort ==
  /\ users \in SortLists
  /\ page = 2 /\ loading = FALSE /\ hasMore = TRUE
  /\ debouncedSearchTerm \in SearchTerms
  /\ searchTerm = debouncedSearchTerm
  /\ sortBy = "none"
  /\ filteredUsers = FilterUsers(users, debouncedSearchTerm)
  /\ sortedUsers = filteredUsers
  /\ filterRuns = 1 /\ sortRuns = 1
  /\ obs = NewObserver(2, TRUE, FALSE)
  /\ observers = { obs }
  /\ mounted = TRUE
  /\ inView = FALSE
  /\ inFlight = <<>>
  /\ pending = <<>>
  /\ altLanes = TRUE
  /\ reactMajor \in ReactMajors
  /\ timers = {} /\ timerHandle = 0 /\ sinceRaw = DEBOUNCE_MS

NextSort == \E by \in SortOptions : OnSortChange(by)

SortSpec == InitSort /\ [][NextSort]_vars

TypeOK ==
  /\ mounted \in BOOLEAN
  /\ page \in 1..(TOTAL_RECORDS + MaxInFlight + 2)
  /\ loading \in BOOLEAN /\ hasMore \in BOOLEAN
  /\ searchTerm \in SearchTerms /\ debouncedSearchTerm \in SearchTerms
  /\ sortBy \in SortOptions
  /\ Len(inFlight) <= MaxInFlight
  /\ Len(pending) <= MaxPending
  /\ altLanes \in BOOLEAN /\ reactMajor \in ReactMajors

\* ---------------------------------------------------------------- claims
\* the fetch issued by a step, if any: the request appended to inFlight
IssuesFetch == Len(inFlight') > Len(inFlight)
\* the queued updates of one kind, in the order they were queued
Queued(kind) == SelectSeq(pending, LAMBDA u : u.kind = kind)
\* a render of queued updates (an unmount drops them instead)
Renders == pending # <<>> /\ pending' = <<>> /\ mounted'
\* a sentinel trigger: the observer reports the sentinel as intersecting
Trigger == Notify /\ inView
\* pages resolved so far, the initial load included (setPage(2), then prev + 1)
Resolved == page - 1

\* C1: the number of page fetches issued (fetchUsers called) and not yet
\* resolved never exceeds 1, whatever the interleaving of intersection
\* reports, effect re-runs and fetch resolutions.
C1_AtMostOneInFlight == Len(inFlight) <= 1

\* C2: end-to-end ordering.  A sentinel trigger that arrives while loading
\* is true issues no fetch; once page 1 has resolved (hasMore true), the next
\* sentinel trigger issues exactly one fetch, for page 2; when that fetch
\* resolves, records holds the first two pages.
C2_EndToEnd ==
  [][ /\ (Trigger /\ loading => ~IssuesFetch)
      /\ (Trigger /\ Resolved = 1 /\ ~loading /\ hasMore
            => inFlight' = << [page |-> 2, init |-> FALSE] >>)
      /\ (Resolved = 1 /\ page' # page
            => Len(users') = Min(2 * PAGE_SIZE, TOTAL_RECORDS)) ]_vars

\* C3: after k resolved page fetches, k * PAGE_SIZE < TOTAL_RECORDS implies
\* that records has length k * PAGE_SIZE and hasMore is true; otherwise
\* hasMore is false and no trigger issues a fetch.
C3_CountAndHasMore ==
  /\ [](Resolved >= 1 =>
          IF Resolved * PAGE_SIZE < TOTAL_RECORDS
          THEN Len(users) = Resolved * PAGE_SIZE /\ hasMore
          ELSE ~hasMore)
  /\ [][Trigger /\ Resolved * PAGE_SIZE >= TOTAL_RECORDS => ~IssuesFetch]_vars

\* C4: Exhausted is terminal.  Once hasMore is false no step issues a fetch
\* and records, page and hasMore never change again.
C4_ExhaustedTerminal ==
  [][ ~hasMore => /\ ~IssuesFetch
                  /\ users' = users /\ page' = page /\ hasMore' = hasMore ]_vars

\* the request of the mount effect
InitialLoad == [page |-> 1, init |-> TRUE]

\* C5: the page-1 load is the only fetch until it has resolved and its
\* records are rendered.  Until then it is outstanding, or resolved and
\* queued for the next render, records is empty and no step issues a fetch;
\* it never reappears afterwards.
C5_InitialLoadOnce ==
  [][ /\ (page = 1 =>
            /\ \/ inFlight = << InitialLoad >> /\ Queued("page") = <<>>
               \/ inFlight = <<>> /\ Queued("page") = << PageUpdate(InitialLoad) >>
            /\ users = <<>>
            /\ ~IssuesFetch)
      /\ \A i \in 1..Len(inFlight') : inFlight'[i].init => page' = 1
      /\ \A i \in 1..Len(pending') : pending'[i].init => page' = 1 ]_vars

\* C5 witness: during the initial load the observer reported the sentinel
\* as intersecting and no fetch was added.
C5_Witness ==
  /\ page = 1 /\ obs.last = "in"
  /\ inFlight = << [page |-> 1, init |-> TRUE] >>

\* C6 (safety part).  An emission (a timer firing) carries the raw term
\* current at that moment (never an intermediate value of a burst) and does
\* not happen before DEBOUNCE_MS have passed since the last raw update; the
\* settled term changes only in the render of an emission, to the value of
\* the last one queued; a raw update does not change it, unless an emission
\* is queued and React renders the queue with the event (19); a raw
\* update leaves exactly one pending timer, its own, with the full quiet
\* window ahead (the timer of the prior update is cancelled); after the
\* emission no timer is pending, so a burst is settled once.
C6_NoEarlyOrIntermediate ==
  [][ /\ (TimerFire
            => /\ \A t \in timers : t.value = searchTerm
               /\ sinceRaw >= DEBOUNCE_MS
               /\ timers' = {}
               /\ pending' # pending =>
                    pending' = Append(pending, SettleUpdate(searchTerm)))
      /\ (debouncedSearchTerm' # debouncedSearchTerm
            => /\ Renders
               /\ Queued("settle") # <<>>
               /\ debouncedSearchTerm' = Queued("settle")[Len(Queued("settle"))].value)
      /\ (searchTerm' # searchTerm
            => /\ (reactMajor = 18 \/ Queued("settle") = <<>>)
                    => debouncedSearchTerm' = debouncedSearchTerm
               /\ \E t \in timers' :
                    /\ timers' = {t}
                    /\ t.value = searchTerm'
                    /\ t.remaining = DEBOUNCE_MS)
      /\ \A t \in timers' : t.value = searchTerm' ]_vars

\* C6: debounce.  A burst of raw updates is settled exactly once, to its
\* final value and not before the quiet window has passed: the safety part
\* above, and every raw value is eventually settled unless another raw
\* update replaces it.
C6_Debounce ==
  /\ C6_NoEarlyOrIntermediate
  /\ \A v \in SearchTerms :
       (searchTerm = v) ~> (debouncedSearchTerm = v \/ searchTerm # v)

\* C6 witness: a burst of two raw updates less than DEBOUNCE_MS apart has
\* been settled to its final value; the intermediate value equals neither.
C6_Witness ==
  /\ searchTerm = << "R", "1" >>
  /\ debouncedSearchTerm = << "R", "1" >>
  /\ timers = {}
  /\ sinceRaw >= DEBOUNCE_MS

\* the render of a fetch resolution: setUsers was handed a new array
UsersReplaced == Renders /\ Queued("page") # <<>>

\* C7: the display list is recomputed if and only if records (a new array
\* from a fetch resolution), the settled search term or the sort directive
\* changed; the filter runs if and only if records or the settled term
\* changed; a render that recomputes nothing hands out the cached sequences.
C7_RecomputeIffDepsChange ==
  [][ /\ (sortRuns' # sortRuns) <=>
           (UsersReplaced \/ debouncedSearchTerm' # debouncedSearchTerm \/ sortBy' # sortBy)
      /\ (filterRuns' # filterRuns) <=>
           (UsersReplaced \/ debouncedSearchTerm' # debouncedSearchTerm)
      /\ (sortRuns' = sortRuns => sortedUsers' = sortedUsers)
      /\ (filterRuns' = filterRuns => filteredUsers' = filteredUsers) ]_vars

\* C7 witness: records are loaded, a raw keystroke is not yet settled and a
\* fetch is outstanding (loading flipped to true after the last resolution).
C7_Witness ==
  /\ users # <<>> /\ loading /\ Len(inFlight) = 1
  /\ searchTerm # debouncedSearchTerm

\* C8: the display list is filter-then-sort of the current records with the
\* current settled term and sort directive, in every state.
C8_DisplayIsCurrent ==
  /\ filteredUsers = FilterUsers(users, debouncedSearchTerm)
  /\ sortedUsers = derive(users, debouncedSearchTerm, sortBy)

\* C8 witness: a second page has resolved while a filter and a sort are set;
\* the display list shows records of that page.
C8_Witness ==
  /\ Resolved >= 2 /\ sortBy = "id-desc" /\ debouncedSearchTerm = << "E", "R" >>
  /\ Len(sortedUsers) > PAGE_SIZE
  /\ sortedUsers[1] > PAGE_SIZE

\* name or email of the record contains the term, both sides lower-cased
Matches(user, term) ==
  \/ includes(toLowerCase(allData[user].name), toLowerCase(term))
  \/ includes(toLowerCase(allData[user].email), toLowerCase(term))
\* positions of records that match the settled term
KeptPositions == { i \in 1..Len(users) : Matches(users[i], debouncedSearchTerm) }
\* the k-th smallest element of a set of numbers
KthSmallest(S, k) == CHOOSE i \in S : Cardinality({ j \in S : j < i }) = k - 1

\* C9: the filter keeps exactly the records whose name or email contains the
\* settled term case-insensitively, in their original relative order; the
\* empty term keeps every record, and so does "ER" (every name has "er").
C9_FilterExact ==
  /\ Len(filteredUsers) = Cardinality(KeptPositions)
  /\ \A k \in 1..Len(filteredUsers) : filteredUsers[k] = users[KthSmallest(KeptPositions, k)]
  /\ (debouncedSearchTerm \in { <<>>, << "E", "R" >> } => filteredUsers = users)

\* C9 witness: an upper-case term that matches through the email only has
\* dropped some of the loaded records and kept others.
C9_Witness ==
  /\ debouncedSearchTerm = << "R", "1" >>
  /\ filteredUsers # <<>>
  /\ Len(filteredUsers) < Len(users)

\* C10: with the empty search term and directive none the display list is
\* the records, element for element.
C10_IdentityDerive ==
  (debouncedSearchTerm = <<>> /\ sortBy = "none") => sortedUsers = users

\* C10 witness: several pages are displayed unfiltered and unsorted, after
\* a sort directive had been selected and removed again.
C10_Witness ==
  /\ debouncedSearchTerm = <<>> /\ sortBy = "none"
  /\ Len(users) > PAGE_SIZE /\ sortedUsers = users
  /\ sortRuns # filterRuns

\* record a comes strictly before record b under the directive
Precedes(a, b, by) ==
  CASE by = "id-asc" -> a.id < b.id
    [] by = "id-desc" -> a.id > b.id
    [] by = "name-asc" -> localeCompare(a.name, b.name) < 0
    [] by = "name-desc" -> localeCompare(a.name, b.name) > 0
    [] OTHER -> FALSE

\* C11: the display list is a permutation of the filter result (never of
\* the unfiltered records), ordered by numeric id or by name, ascending or
\* descending as the directive says; records that compare equal keep the
\* relative order of the filter result, and none keeps that order entirely.
C11_SortedStablePermutation ==
  LET f == filteredUsers
      n == Len(f)
      rec(r) == allData[r]
      \* the place of f[i]: after every record that precedes it and after
      \* every equal record that stood before it
      Place(i) == 1 + Cardinality({ j \in 1..n :
                        \/ Precedes(rec(f[j]), rec(f[i]), sortBy)
                        \/ ~Precedes(rec(f[i]), rec(f[j]), sortBy) /\ j < i })
  IN  /\ f = FilterUsers(users, debouncedSearchTerm)
      /\ Len(sortedUsers) = n
      /\ \A i \in 1..n : sortedUsers[Place(i)] = f[i]
      /\ \A k \in 1..(n - 1) :
            ~Precedes(rec(sortedUsers[k + 1]), rec(sortedUsers[k]), sortBy)
      /\ (sortBy = "none" => sortedUsers = f)

\* C11 witness: under an active search term the filter result 3, 1, 5 is
\* displayed as 5, 3, 1 by id descending.
C11_Witness ==
  /\ sortBy = "id-desc"
  /\ debouncedSearchTerm = << "E", "R" >>
  /\ filteredUsers = << 3, 1, 5 >>
  /\ sortedUsers = << 5, 3, 1 >>

\* the ids of a list of records
Ids(us) == [i \in 1..Len(us) |-> allData[us[i]].id]
\* the ids lo, lo + 1, ..., hi in ascending order (none when hi < lo)
Range(lo, hi) == [i \in 1..(IF hi >= lo THEN hi - lo + 1 ELSE 0) |-> lo + i - 1]
\* number of pages of the dataset, the last one possibly partial
NumPages == (TOTAL_RECORDS + PAGE_SIZE - 1) \div PAGE_SIZE
\* the pages 1..n one after the other
RECURSIVE PagesUpTo(_)
PagesUpTo(n) == IF n = 0 THEN <<>> ELSE PagesUpTo(n - 1) \o fetchUsers(n).data

\* the id ranges of the pages of a queue of resolutions, one after the other
RECURSIVE RangesOf(_)
RangesOf(q) ==
  IF q = <<>> THEN <<>>
  ELSE Range((Head(q).page - 1) * PAGE_SIZE + 1, Min(Head(q).page * PAGE_SIZE, TOTAL_RECORDS))
         \o RangesOf(Tail(q))

\* C12: a fetch of page p resolves with the ids (p-1)*pageSize+1 ..
\* min(p*pageSize, totalRecords) in ascending order and with hasMore =
\* (p*pageSize < totalRecords); distinct pages share no record, and the
\* pages in page order make up the whole dataset in ascending id order.
C12_PageContents ==
  /\ [][ UsersReplaced =>
          LET q == Queued("page")
          IN  /\ Ids(users') = Ids(users) \o RangesOf(q)
              /\ hasMore' = (q[Len(q)].page * PAGE_SIZE < TOTAL_RECORDS) ]_vars
  /\ [](/\ \A p, q \in 1..(NumPages + 1) :
             p # q => \A i \in 1..Len(fetchUsers(p).data) :
                        \A j \in 1..Len(fetchUsers(q).data) :
                          fetchUsers(p).data[i] # fetchUsers(q).data[j]
         /\ Ids(PagesUpTo(NumPages)) = Range(1, TOTAL_RECORDS))

\* C12 witness: the last page has resolved and the whole dataset is loaded,
\* its last record at the end.
C12_Witness ==
  /\ Len(users) = TOTAL_RECORDS /\ users[TOTAL_RECORDS] = TOTAL_RECORDS
  /\ ~hasMore /\ page = NumPages + 1 /\ inFlight = <<>>

\* the table as App renders it: <DataTable data={sortedUsers} loading={loading} />
TableRows == DataTable(sortedUsers, loading)

\* C13: the table shows exactly 18 placeholder rows while loading is true
\* and none while it is false; the placeholders come after all data rows,
\* the data rows are the display list, and no element of the display list
\* is a placeholder.
C13_SkeletonRows ==
  LET skeletons == { i \in 1..Len(TableRows) : TableRows[i].kind = "skeleton" }
      rows == { i \in 1..Len(TableRows) : TableRows[i].kind = "row" }
  IN  /\ Cardinality(skeletons) = IF loading THEN 18 ELSE 0
      /\ \A i \in rows : \A j \in skeletons : i < j
      /\ rows = 1..Len(sortedUsers)
      /\ \A i \in rows : TableRows[i].user = sortedUsers[i]
      /\ \A i \in 1..Len(sortedUsers) : sortedUsers[i] \in 1..TOTAL_RECORDS
      /\ \A i \in 1..Len(users) : users[i] \in 1..TOTAL_RECORDS

\* C13 witness: a later page is being fetched, the placeholders follow the
\* rows of the records already displayed.
C13_Witness ==
  /\ loading /\ sortedUsers # <<>>
  /\ Len(TableRows) = Len(sortedUsers) + 18
  /\ TableRows[Len(sortedUsers)].kind = "row"
  /\ TableRows[Len(sortedUsers) + 1].kind = "skeleton"

\* a fetch for page p is outstanding
Requested(p) == \E i \in 1..Len(inFlight) : inFlight[i].page = p

\* the controller is idle: loading is false, no fetch is outstanding and no
\* update is waiting to be rendered
Idle == ~loading /\ inFlight = <<>> /\ pending = <<>>

C17_TimerCancelled ==
  /\ [](~mounted => timers = {})
  /\ [][ ~mounted => UNCHANGED debouncedSearchTerm ]_vars

\* C17 witness: the component was unmounted with a keystroke pending; the
\* quiet window has elapsed since and the term never settled.
C17_Witness ==
  /\ ~mounted /\ timers = {}
  /\ searchTerm # debouncedSearchTerm
  /\ sinceRaw = DEBOUNCE_MS

\* C18: the observer of the effect's last run is the only one watching
\* the sentinel while the component is mounted and none watches after the
\* unmount; every fetch issued by a report comes from that observer, and
\* none is issued after the unmount.
C18_OneObserver ==
  /\ [](/\ Cardinality(observers) <= 1
         /\ observers = IF mounted THEN { obs } ELSE {})
  /\ [][ (Notify /\ IssuesFetch) =>
           /\ mounted
           /\ obs.last # "in" /\ obs' = [obs EXCEPT !.last = "in"]
           /\ inFlight'[Len(inFlight')].page = obs.page ]_vars

\* C18 witness: the effect re-subscribed after page 1, its observer issued
\* a fetch, and the component was unmounted with the sentinel in view.
C18_Witness ==
  /\ ~mounted /\ observers = {}
  /\ inView /\ obs.page = 2 /\ obs.last = "in"
  /\ hasMore

\* C19: the number of data rows rendered never exceeds the visible window,
\* however many records have been accumulated.
C19_VisibleWindow ==
  Cardinality({ i \in 1..Len(TableRows) : TableRows[i].kind = "row" }) <= VisibleWindow

\* C20: a fetch issued by a sentinel trigger requests the page after the
\* pages already resolved, and the records are the ids 1..Len(users) in
\* ascending order (no duplicate, no skipped page).
C20_NoStalePage ==
  /\ [][ (Trigger /\ IssuesFetch) =>
           inFlight'[Len(inFlight')].page = Resolved + 1 ]_vars
  /\ [](Ids(users) = Range(1, Len(users)))

\* us is an initial part of vs
IsPrefix(us, vs) == Len(us) <= Len(vs) /\ SubSeq(vs, 1, Len(us)) = us

\* the pages of a queue of resolutions, one after the other
RECURSIVE PagesOf(_)
PagesOf(q) == IF q = <<>> THEN <<>> ELSE fetchUsers(Head(q).page).data \o PagesOf(Tail(q))

\* C21: a fetch resolution appends the records of its page after the
\* records already held, moves the page cursor by exactly 1 and sets hasMore
\* to the page's hasMore; in every step the records held before remain an
\* unchanged initial part of the records.
C21_AppendOnly ==
  /\ [][ UsersReplaced =>
           LET q == Queued("page")
           IN  /\ users' = users \o PagesOf(q)
               /\ page' = page + Len(q)
               /\ hasMore' = fetchUsers(q[Len(q)].page).hasMore ]_vars
  /\ [][ users' # users => UsersReplaced ]_vars
  /\ [][ IsPrefix(users, users') ]_vars

\* C21 witness: a third page has been appended after two others and the
\* cursor stands after it.
C21_Witness ==
  /\ page = 4 /\ Len(users) > 2 * PAGE_SIZE
  /\ SubSeq(users, 1, PAGE_SIZE) = fetchUsers(1).data
  /\ inFlight = <<>>

\* the queued updates a step renders: all of them or none
Committed == IF Renders THEN pending ELSE <<>>

\* C22: a step that changes the raw search term, the settled term or the
\* sort directive gives users, page, loading and hasMore the values that
\* the updates of loadUsers and of the fetch callbacks rendered in that
\* step give them, and leaves them as they are when it renders none (an
\* input event under React 18 never does); the sort works on a copy, so
\* under none the display list is the filter result, which keeps the order
\* of accumulation.
C22_PaginationUntouched ==
  /\ [][ (searchTerm' # searchTerm \/ sortBy' # sortBy
            \/ debouncedSearchTerm' # debouncedSearchTerm)
         => LET others == SelectSeq(Committed, LAMBDA u : u.kind # "settle")
                st == RenderedWith(others)
            IN  /\ users' = st.users /\ page' = st.page
                /\ loading' = st.loading /\ hasMore' = st.hasMore
                /\ others = <<>> => UNCHANGED << users, page, loading, hasMore >> ]_vars
  /\ [][ (reactMajor = 18 /\ (searchTerm' # searchTerm \/ sortBy' # sortBy))
         => UNCHANGED << users, page, loading, hasMore, pending >> ]_vars
  /\ [](sortBy = "none" => sortedUsers = filteredUsers)

\* C22 witness: with a fetch outstanding and a keystroke not yet settled,
\* none has been selected again after other directives; several pages are
\* displayed in the order of accumulation.
C22_Witness ==
  /\ sortBy = "none" /\ sortRuns # filterRuns
  /\ loading /\ inFlight # <<>>
  /\ searchTerm # debouncedSearchTerm
  /\ Len(users) > PAGE_SIZE /\ sortedUsers = users

\* C23: while the component is mounted, loading (with the updates already
\* queued counted in) is true exactly when a fetch is outstanding; the step
\* that issues a fetch leaves it true, and the rendered flag becomes false
\* only in the render of a fetch resolution, together with the update of
\* users, hasMore and page.
C23_LoadingIffOutstanding ==
  /\ [](mounted => (Rendered.loading <=> inFlight # <<>>))
  /\ [][ IssuesFetch => Rendered.loading' ]_vars
  /\ [][ (loading /\ ~loading') => UsersReplaced ]_vars

\* every record is loaded, nothing is outstanding, hasMore is false
Exhausted ==
  /\ ~hasMore /\ ~loading /\ inFlight = <<>> /\ Queued("page") = <<>>
  /\ Ids(users) = Range(1, TOTAL_RECORDS)

\* C24: with the sentinel continuously in view the controller ends up
\* exhausted, after exactly ceil(TOTAL_RECORDS / PAGE_SIZE) resolved fetches
\* and with all records loaded, and stays there; no fetch is issued once
\* that many fetches have resolved.
C24_Termination ==
  /\ <>[](Exhausted /\ Resolved = NumPages)
  /\ [][ Resolved >= NumPages => ~IssuesFetch ]_vars
  /\ [](Resolved <= NumPages)

\* C24 witness: the last page has resolved with the sentinel in view, the
\* observer subscribed after it has reported the sentinel, and no fetch was
\* issued.
C24_Witness ==
  /\ Exhausted /\ Resolved = NumPages
  /\ inView /\ ~ObserverStale /\ obs.last = "in"

====
